---- MODULE Spec2Model ----
(***************************************************************************)
(* Model of noxfile.py: the nox sessions of the project, each a sequence   *)
(* of external commands chosen from the positional arguments (posargs),    *)
(* the environment and the values read from pyproject.toml.                *)
(*                                                                         *)
(* One nox invocation is modelled: Init is the state after the noxfile was *)
(* imported and nox selected the sessions to run (queue); each action runs *)
(* one session function to its end.  session.posargs is the list held by   *)
(* nox's global configuration, one list object shared by every session of  *)
(* the invocation, so a removal made by one session is seen by the next.   *)
(* The exit status of every spawned command is an input of the action.     *)
(***************************************************************************)
EXTENDS Integers, Sequences, FiniteSets, TLC

VARIABLES
    IN_VENV,      \* noxfile.py:168-170  a virtual environment was found
    interactive,  \* session.interactive (stdin is a tty, no --non-interactive)
    osenv,        \* the process environment at start, "" for unset or empty
    PYPROJECT,    \* the values read from pyproject.toml (noxfile.py:33-42)
    queue,        \* sessions nox still has to run, in order
    argv0,        \* the posargs the caller supplied
    posargs,      \* session.posargs, shared by all sessions
    files,        \* files the sessions write themselves: path -> content
    runs,         \* what each finished session did
    request,      \* the session names nox was asked for (the default list if none)
    nox_error     \* why nox ran no session at all, "" if it did not refuse

vars == <<IN_VENV, interactive, osenv, PYPROJECT, queue, argv0, posargs, files, runs,
          request, nox_error>>

(***************************************************************************)
(* Bounds of the model.                                                    *)
(***************************************************************************)
MaxArgs == 2        \* length of the caller's posargs
MaxEnvSet == 1      \* environment variables set at start
MaxBuilders == 2    \* sphinx builders listed in tox_docs_builders

(***************************************************************************)
(* Python's str and list operations used by the noxfile.                   *)
(***************************************************************************)
\* str.startswith(prefix)
StartsWith(str, prefix) ==
    /\ Len(str) >= Len(prefix)
    /\ SubSeq(str, 1, Len(prefix)) = prefix

\* str[n:]
DropFirst(str, n) == SubSeq(str, n + 1, Len(str))

\* str.split(sep) for a one character separator
RECURSIVE Split(_, _)
Split(str, sep) ==
    IF \E i \in 1..Len(str) : SubSeq(str, i, i) = sep
    THEN LET i == CHOOSE k \in 1..Len(str) :
                     /\ SubSeq(str, k, k) = sep
                     /\ \A j \in 1..(k - 1) : SubSeq(str, j, j) # sep
         IN <<SubSeq(str, 1, i - 1)>> \o Split(SubSeq(str, i + 1, Len(str)), sep)
    ELSE <<str>>

\* sep.join(list)
RECURSIVE Join(_, _)
Join(list, sep) ==
    IF list = <<>> THEN ""
    ELSE IF Len(list) = 1 THEN list[1]
    ELSE list[1] \o sep \o Join(Tail(list), sep)

\* str(list) of a list of str: "['a', 'b']"
ListStr(list) == "[" \o Join([i \in 1..Len(list) |-> "'" \o list[i] \o "'"], ", ") \o "]"

\* x in list
Contains(list, x) == \E i \in 1..Len(list) : list[i] = x

\* list.remove(x) under contextlib.suppress(ValueError): the first x, if any
Remove(list, x) ==
    IF Contains(list, x)
    THEN LET i == CHOOSE k \in 1..Len(list) :
                     /\ list[k] = x
                     /\ \A j \in 1..(k - 1) : list[j] # x
         IN SubSeq(list, 1, i - 1) \o SubSeq(list, i + 1, Len(list))
    ELSE list

\* the first element of list that starts with prefix, else ""
FirstWithPrefix(list, prefix) ==
    IF \E i \in 1..Len(list) : StartsWith(list[i], prefix)
    THEN list[CHOOSE k \in 1..Len(list) :
                  /\ StartsWith(list[k], prefix)
                  /\ \A j \in 1..(k - 1) : ~StartsWith(list[j], prefix)]
    ELSE ""

\* dict helpers: a dict is a function on its keys
EmptyDict == [k \in {} |-> ""]
Update(d, e) == [k \in DOMAIN d \cup DOMAIN e |-> IF k \in DOMAIN e THEN e[k] ELSE d[k]]
Get(d, k, default) == IF k \in DOMAIN d THEN d[k] ELSE default
\* x or default, for a str x
Or(x, default) == IF x = "" THEN default ELSE x

(***************************************************************************)
(* Configuration read when the noxfile is imported.                        *)
(***************************************************************************)
NOXFILE_DIR == "/repo"
COV_CACHE_DIR == NOXFILE_DIR \o "/.coverage_cache"
JUNIT_CACHE_DIR == NOXFILE_DIR \o "/.junit_cache"
PACKAGE_NAME == PYPROJECT.name
TOX_SKIP_SDIST == PYPROJECT.tox_skip_sdist
TOX_PYTHON_VERSIONS == PYPROJECT.tox_python_versions
TOX_DOCS_BUILDERS == PYPROJECT.tox_docs_builders
TOXENV_PYTHON_TEST_VERSIONS == TOX_PYTHON_VERSIONS
TOXENV_SPHINX_BUILDER == TOX_DOCS_BUILDERS
\* __TOXENV_SPHINX_BUILDER[11:-1].split(",")
SPHINX_BUILDERS == Split(SubSeq(TOXENV_SPHINX_BUILDER, 12, Len(TOXENV_SPHINX_BUILDER) - 1), ",")

TOX_CALLS == osenv["_NOX_TOX_CALLS"] = "true"
IN_CI == osenv["_NOX_IN_CI"] = "true"

\* what the helpers of formelsammlung.venv_utils return for the venv in use
VENV_PATH == "/venv"
VENV_BIN_DIR == VENV_PATH \o "/bin"
VENV_TMP_DIR == VENV_PATH \o "/tmp"
VENV_SITE_PACKAGES_DIR == VENV_PATH \o "/lib/site-packages"
\* sys.implementation name and sys.version_info[0:2] of the running python
PY_NAME == "cpython3.8"

PDBRC_FILE == "# .pdbrc file generated by nox"
DEBUG_PY_FILE == "# Import devtools if installed and add to builtins"

(***************************************************************************)
(* A running session.  r.cmds are the commands spawned so far, each with   *)
(* its argument list, the environment the script gave it and its exit      *)
(* status; r.fail is the input saying which spawns return non-zero;        *)
(* r.status is "running" until an exception leaves the session function.   *)
(***************************************************************************)
Start(args, fail) ==
    [cmds |-> <<>>, pos |-> args, env |-> EmptyDict, status |-> "running",
     fail |-> fail, written |-> EmptyDict]

\* Run with the exit status never checked: a non-zero exit raises nothing
Run_unchecked(r, argv, env) ==
    IF r.status # "running" THEN r
    ELSE LET rc == IF (Len(r.cmds) + 1) \in r.fail THEN 1 ELSE 0
         IN [r EXCEPT !.cmds = Append(@, [argv |-> argv, env |-> Update(r.env, env), rc |-> rc])]

\* session.run / session._run: spawn, CommandFailed on a non-zero exit
Run(r, argv, env) ==
    IF r.status # "running" THEN r
    ELSE LET rc == IF (Len(r.cmds) + 1) \in r.fail THEN 1 ELSE 0
         IN [r EXCEPT !.cmds = Append(@, [argv |-> argv, env |-> Update(r.env, env), rc |-> rc]),
                      !.status = IF rc = 0 THEN "running" ELSE "failed"]

\* try: session.run(...) except CommandFailed: the session goes on
TryRun(r, argv, env) ==
    IF r.status # "running" THEN r
    ELSE [Run(r, argv, env) EXCEPT !.status = "running"]

\* the exit status of the last spawn
LastFailed(r) == r.cmds # <<>> /\ r.cmds[Len(r.cmds)].rc # 0

\* session.env[key] = value
SetEnv(r, key, value) ==
    IF r.status # "running" THEN r
    ELSE [r EXCEPT !.env = Update(@, [k \in {key} |-> value])]

\* session.posargs.remove(x), ValueError suppressed
RemoveArg(r, x) ==
    IF r.status # "running" THEN r
    ELSE [r EXCEPT !.pos = Remove(@, x)]

\* raise CommandFailed / session.error / session.skip
Raise(r, status) ==
    IF r.status # "running" THEN r
    ELSE [r EXCEPT !.status = status]

\* Session.poetry_install: the default venv backend is "none", so the
\* session's virtualenv is a PassthroughEnv and PIP_REQUIRE_VIRTUALENV is set
poetry_install(r, extras, no_dev, no_root) ==
    LET req_venv == [k \in {"PIP_REQUIRE_VIRTUALENV"} |-> "true"]
        env == Update([k \in {"PIP_DISABLE_VERSION_CHECK"} |-> "1"], req_venv)
        r1 == Run(r, <<"pip", "install", "poetry>=1">>, env)
        extra_deps == IF extras # "" THEN <<"--extras", extras>> ELSE <<>>
        no_dev_flag == IF no_dev THEN <<"--no-dev">> ELSE <<>>
        no_root_flag == IF no_root THEN <<"--no-root">> ELSE <<>>
        install_args == no_root_flag \o no_dev_flag \o extra_deps
        poetry_args == IF osenv["_NOX_POETRY_COLOR"] = "true" THEN <<"--ansi">> ELSE <<>>
    IN Run(r1, <<"poetry", "install">> \o poetry_args \o install_args, req_venv)

\* str(TOX_SKIP_SDIST)
BoolStr(b) == IF b THEN "True" ELSE "False"

\* _tox_caller with the session.env line left out
tox_caller_no_env(r, tox_env) ==
    LET r1 == poetry_install(r, "tox", osenv["_NOX_IN_CI"] = "true", TRUE)
    IN Run(r1, <<"tox", "-e", tox_env>> \o r1.pos, EmptyDict)

tox_caller(r, tox_env) ==
    LET r1 == poetry_install(r, "tox", IN_CI, TRUE)
        r2 == SetEnv(r1, "_TOX_SKIP_SDIST", BoolStr(TOX_SKIP_SDIST))
    IN Run(r2, <<"tox", "-e", tox_env>> \o r2.pos, EmptyDict)

\* if not IN_VENV or "tox" in session.posargs
UseTox(r) == ~IN_VENV \/ Contains(r.pos, "tox")

(***************************************************************************)
(* The session functions.                                                  *)
(***************************************************************************)
package(r) ==
    IF UseTox(r)
    THEN tox_caller(RemoveArg(r, "tox"), "package")
    ELSE LET r1 == IF ~Contains(r.pos, "skip_install")
                   THEN poetry_install(r, "poetry twine", TOX_CALLS \/ IN_CI, TRUE)
                   ELSE r
             r2 == Run(r1, <<"poetry", "build", "-vvv">>, EmptyDict)
         IN Run(r2, <<"twine", "check", "dist/*">>, EmptyDict)

test_code(r) ==
    IF UseTox(r)
    THEN tox_caller(r, TOX_PYTHON_VERSIONS)
    ELSE LET r1 == IF ~Contains(r.pos, "skip_install")
                   THEN LET i == poetry_install(r, "testing", TOX_CALLS \/ IN_CI, TRUE)
                        IN IF ~TOX_CALLS
                           THEN Run(i, <<"pip", "install", ".">>, EmptyDict)
                           ELSE i
                   ELSE RemoveArg(r, "skip_install")
             r2 == SetEnv(r1, "COVERAGE_FILE", COV_CACHE_DIR \o "/.coverage." \o PY_NAME)
         IN Run(r2,
                <<"pytest",
                  "--basetemp=" \o VENV_TMP_DIR,
                  "--junitxml=" \o JUNIT_CACHE_DIR \o "/junit.None.xml",
                  "--cov=" \o VENV_SITE_PACKAGES_DIR \o "/" \o PACKAGE_NAME,
                  "--cov-fail-under=" \o Or(osenv["MIN_COVERAGE"], "100"),
                  "--numprocesses=" \o Or(osenv["PYTEST_XDIST_N"], "auto"),
                  IF r2.pos # <<>> THEN ListStr(r2.pos) ELSE "tests">>,
                EmptyDict)

\* _coverage(session, job)
coverage_job(r, job) ==
    LET r1 == IF ~Contains(r.pos, "skip_install")
              THEN poetry_install(r,
                                  IF job \in {"report", "all"}
                                  THEN "coverage diff-cover" ELSE "coverage",
                                  TOX_CALLS \/ IN_CI, TRUE)
              ELSE RemoveArg(r, "skip_install")
        r2 == SetEnv(r1, "COVERAGE_FILE", COV_CACHE_DIR \o "/.coverage")
        cov_xml == COV_CACHE_DIR \o "/coverage.xml"
        r3 == IF job \in {"merge", "all"}
              THEN LET m1 == Run(r2, <<"coverage", "combine">>, EmptyDict)
                       m2 == Run(m1, <<"coverage", "xml", "-o", cov_xml>>, EmptyDict)
                   IN Run(m2, <<"coverage", "html", "-d", COV_CACHE_DIR \o "/htmlcov">>,
                          EmptyDict)
              ELSE r2
    IN IF job \in {"report", "all"}
       THEN LET min_cov == Or(osenv["MIN_COVERAGE"], "100")
                t == TryRun(r3, <<"coverage", "report", "-m", "--fail-under=" \o min_cov>>,
                            EmptyDict)
                raise_error == r3.status = "running" /\ LastFailed(t)
                d == Run(t,
                         <<"diff-cover",
                           "--compare-branch=" \o Or(osenv["DIFF_AGAINST"], "origin/master"),
                           "--ignore-staged",
                           "--ignore-unstaged",
                           "--fail-under=" \o Or(osenv["MIN_DIFF_COVERAGE"], "100"),
                           "--diff-range-notation=" \o Or(osenv["DIFF_RANGE_NOTATION"], ".."),
                           cov_xml>>,
                         EmptyDict)
            IN IF raise_error THEN Raise(d, "failed") ELSE d
       ELSE r3

coverage_merge(r) ==
    IF UseTox(r)
    THEN tox_caller(RemoveArg(r, "tox"), "coverage_merge")
    ELSE coverage_job(r, "merge")

coverage_report(r) ==
    IF UseTox(r)
    THEN tox_caller(RemoveArg(r, "tox"), "coverage_report")
    ELSE coverage_job(r, "report")

coverage(r) ==
    IF UseTox(r)
    THEN tox_caller(RemoveArg(r, "tox"), "coverage")
    ELSE coverage_job(r, "all")

\* open(path, "w").write(content)
WriteFile(r, path, content) ==
    IF r.status # "running" THEN r
    ELSE [r EXCEPT !.written = Update(@, [k \in {path} |-> content])]

safety(r) ==
    IF UseTox(r)
    THEN tox_caller(RemoveArg(r, "tox"), "safety")
    ELSE LET r1 == IF ~Contains(r.pos, "skip_install")
                   THEN poetry_install(r, "poetry safety", TOX_CALLS \/ IN_CI, TRUE)
                   ELSE r
             req_file_path == VENV_TMP_DIR \o "/requirements.txt"
             \* subprocess.run(command, check=True): CalledProcessError on non-zero
             r2 == Run(r1, <<VENV_BIN_DIR \o "/poetry", "show">>, EmptyDict)
             r3 == WriteFile(r2, req_file_path, "name==version lines of poetry show")
         IN Run(r3, <<"safety", "check", "-r", req_file_path, "--full-report">>, EmptyDict)

\* the loop over hooks without the try/except: the first failing hook ends it
RECURSIVE run_hooks_fatal(_, _, _, _)
run_hooks_fatal(r, hooks, show_diff, env) ==
    IF hooks = <<>> THEN r
    ELSE LET add_args == show_diff \o r.pos \o <<Head(hooks)>>
             t == Run(r, <<"pre-commit", "run", "--all-files">> \o add_args, env)
         IN run_hooks_fatal(t, Tail(hooks), show_diff, env)

\* the loop over hooks of pre_commit: one pre-commit run per hook, failures collected
RECURSIVE run_hooks(_, _, _, _)
run_hooks(r, hooks, show_diff, env) ==
    IF hooks = <<>> THEN r
    ELSE LET add_args == show_diff \o r.pos \o <<Head(hooks)>>
             t == TryRun(r, <<"pre-commit", "run", "--all-files">> \o add_args, env)
         IN run_hooks(t, Tail(hooks), show_diff, env)

pre_commit(r) ==
    IF UseTox(r)
    THEN tox_caller(RemoveArg(r, "tox"), "pre_commit")
    ELSE LET r1 == IF ~Contains(r.pos, "skip_install")
                   THEN poetry_install(r, "pre-commit testing docs poetry nox",
                                       TOX_CALLS \/ IN_CI, TOX_CALLS)
                   ELSE r
             with_diff == \/ (interactive /\ Contains(r1.pos, "diff"))
                          \/ (~interactive /\ ~Contains(r1.pos, "nodiff"))
             show_diff == IF with_diff THEN <<"--show-diff-on-failure">> ELSE <<>>
             env0 == IF with_diff THEN EmptyDict ELSE [k \in {"SKIP"} |-> "identity"]
             skip == FirstWithPrefix(r1.pos, "SKIP=")
             env == IF skip # ""
                    THEN [k \in {"SKIP"} |-> DropFirst(skip, 5) \o "," \o Get(env0, "SKIP", "")]
                    ELSE env0
             hooks_arg == FirstWithPrefix(r1.pos, "HOOKS=")
             r2 == RemoveArg(RemoveArg(RemoveArg(RemoveArg(RemoveArg(r1,
                       "skip_install"), "diff"), "nodiff"), skip), hooks_arg)
             hooks == IF hooks_arg # "" THEN Split(DropFirst(hooks_arg, 6), ",") ELSE <<"">>
             r3 == run_hooks(r2, hooks, show_diff, env)
             error_hooks == \E i \in (Len(r2.cmds) + 1)..Len(r3.cmds) : r3.cmds[i].rc # 0
         IN IF error_hooks THEN Raise(r3, "failed") ELSE r3

docs(r) ==
    IF UseTox(r)
    THEN tox_caller(RemoveArg(r, "tox"), "docs")
    ELSE LET autobuild == Contains(r.pos, "autobuild") \/ Contains(r.pos, "ab")
             extras == IF autobuild THEN "docs sphinx-autobuild" ELSE "docs"
             cmd == IF autobuild THEN "sphinx-autobuild" ELSE "sphinx-build"
             args == <<"-b", "html", "-aE", "docs/source", "docs/build/html">>
                     \o (IF autobuild THEN <<"--open-browser">> ELSE <<>>)
             r1 == RemoveArg(RemoveArg(RemoveArg(r, "skip_install"), "autobuild"), "ab")
             r2 == IF ~Contains(r1.pos, "skip_install")
                   THEN poetry_install(r1, extras, TOX_CALLS \/ IN_CI, TOX_CALLS)
                   ELSE r1
         IN Run(r2, <<cmd>> \o args \o r2.pos, EmptyDict)

test_docs(r, builder) ==
    IF UseTox(r)
    THEN tox_caller(RemoveArg(r, "tox"), TOX_DOCS_BUILDERS)
    ELSE LET r1 == IF ~Contains(r.pos, "skip_install")
                   THEN poetry_install(r, "docs", TOX_CALLS \/ IN_CI, TOX_CALLS)
                   ELSE RemoveArg(r, "skip_install")
             default_args == <<"-aE", "-v", "-nW", "--keep-going", "docs/source",
                               "docs/build/test/" \o builder>>
             add_args == IF builder = "confluence"
                         THEN <<"-t", "builder_confluence">> ELSE <<>>
         IN Run(r1, <<"sphinx-build", "-b", builder>> \o default_args \o add_args \o r1.pos,
                EmptyDict)

install_extras(r) ==
    IF PYPROJECT.extras = <<>>
    THEN Raise(r, "skipped")
    ELSE LET r1 == poetry_install(r, Join(PYPROJECT.extras, " "), FALSE, FALSE)
         IN Run(r1, <<"python", "-m", "pip", "list", "--format=columns">>, EmptyDict)

setup_pre_commit(r) ==
    LET r1 == Run(r, <<"tox", "-re", "pre_commit", "--notest">>, EmptyDict)
        r2 == Run(r1, <<"pre-commit", "install", "-t", "pre-commit", "-t", "commit-msg">>,
                  EmptyDict)
    IN Run(r2, <<"tox", "-e", "pre_commit">>, EmptyDict)

\* get_venv_path() raises or returns None without a venv, and the session fails
debug_import(r) ==
    IF ~IN_VENV THEN Raise(r, "failed")
    ELSE LET filename == "__devtools_debug_import_hack"
             r1 == WriteFile(r, VENV_SITE_PACKAGES_DIR \o "/" \o filename \o ".pth",
                             "import " \o filename)
         IN WriteFile(r1, VENV_SITE_PACKAGES_DIR \o "/" \o filename \o ".py", DEBUG_PY_FILE)

\* what files holds for a path that is a directory, not a regular file
Directory == "<directory>"

\* pdbrc with the is_file() test left out
pdbrc_overwrite(r) == WriteFile(r, NOXFILE_DIR \o "/.pdbrc", PDBRC_FILE)

\* Path.is_file() is false for a missing path and for a directory; open(path, "w")
\* of a directory raises IsADirectoryError and the session fails
pdbrc(r) ==
    LET pdbrc_file_path == NOXFILE_DIR \o "/.pdbrc"
    IN IF pdbrc_file_path \notin DOMAIN files
       THEN WriteFile(r, pdbrc_file_path, PDBRC_FILE)
       ELSE IF files[pdbrc_file_path] = Directory
       THEN Raise(r, "failed")
       ELSE r

tox_test_docs(r) == tox_caller(r, TOX_DOCS_BUILDERS)

tox_lint(r) == tox_caller(r, "safety,pre_commit")

tox_code(r) ==
    LET env1 == IF ~Contains(r.pos, "nopkg") THEN "package" ELSE ""
        r1 == IF ~Contains(r.pos, "notest") /\ TOXENV_PYTHON_TEST_VERSIONS = ""
              THEN Raise(r, "error") ELSE r
        env2 == IF ~Contains(r.pos, "notest")
                THEN env1 \o (IF env1 # "" THEN "," ELSE "") \o TOXENV_PYTHON_TEST_VERSIONS
                ELSE env1
        env3 == IF ~Contains(r.pos, "nocov")
                THEN env2 \o (IF env2 # "" THEN "," ELSE "") \o "coverage-all"
                ELSE env2
        r2 == IF env3 = "" THEN Raise(r1, "skipped") ELSE r1
    IN tox_caller(r2, env3)

tox_docs_test(r) == tox_caller(r, TOXENV_SPHINX_BUILDER)

(***************************************************************************)
(* The sessions registered with @nox.session and the option tokens each    *)
(* session function tests for or removes.                                  *)
(***************************************************************************)
Registered ==
    {"package", "test_code", "coverage_merge", "coverage_report", "coverage", "safety",
     "pre_commit", "docs", "test_docs", "install_extras", "setup_pre_commit",
     "debug_import", "pdbrc", "tox_test_docs", "tox_lint", "tox_code", "tox_docs_test"}

\* the sessions that take "tox" and "skip_install"
FlagSessions ==
    {"package", "test_code", "coverage_merge", "coverage_report", "coverage", "safety",
     "pre_commit", "docs", "test_docs"}

\* the wrappers that always call tox
ToxWrappers == {"tox_test_docs", "tox_lint", "tox_code", "tox_docs_test"}

\* does session name treat token as an option of its own
Recognizes(name, token) ==
    \/ name \in FlagSessions /\ token \in {"tox", "skip_install"}
    \/ name = "pre_commit" /\ (\/ token \in {"diff", "nodiff"}
                               \/ StartsWith(token, "SKIP=")
                               \/ StartsWith(token, "HOOKS="))
    \/ name = "docs" /\ token \in {"autobuild", "ab"}
    \/ name = "tox_code" /\ token \in {"nopkg", "notest", "nocov"}

(***************************************************************************)
(* The inputs of one invocation.                                           *)
(***************************************************************************)
AllTokens ==
    {"tox", "skip_install", "diff", "nodiff", "SKIP=a", "SKIP=b", "HOOKS=h1,h2",
     "autobuild", "ab", "nopkg", "notest", "nocov"}

\* tokens tried with a session: its own options and one token it does not know
Tokens(name) == {t \in AllTokens : Recognizes(name, t)} \cup {"-k"}

ArgLists(tokens) == UNION {[1..n -> tokens] : n \in 0..MaxArgs}

EnvSample ==
    [_NOX_TOX_CALLS |-> "true", _NOX_IN_CI |-> "true", _NOX_POETRY_COLOR |-> "true",
     MIN_COVERAGE |-> "90", PYTEST_XDIST_N |-> "2", DIFF_AGAINST |-> "origin/dev",
     MIN_DIFF_COVERAGE |-> "80", DIFF_RANGE_NOTATION |-> "..."]

\* the environment variables a session function reads
EnvReads(name) ==
    (IF name \in {"setup_pre_commit", "debug_import", "pdbrc"}
     THEN {} ELSE {"_NOX_IN_CI", "_NOX_POETRY_COLOR"})
    \cup (IF name \in FlagSessions THEN {"_NOX_TOX_CALLS"} ELSE {})
    \cup (IF name = "test_code" THEN {"MIN_COVERAGE", "PYTEST_XDIST_N"} ELSE {})
    \cup (IF name \in {"coverage_report", "coverage"}
          THEN {"MIN_COVERAGE", "DIFF_AGAINST", "MIN_DIFF_COVERAGE", "DIFF_RANGE_NOTATION"}
          ELSE {})

\* environments tried with a session: some of the variables it reads are set
OsEnvs(name) ==
    {[k \in DOMAIN EnvSample |-> IF k \in set THEN EnvSample[k] ELSE ""] :
        set \in {s \in SUBSET EnvReads(name) : Cardinality(s) <= MaxEnvSet}}

BuilderNames == <<"html", "confluence", "linkcheck", "coverage", "doctest">>

Pyproject(builders, extras, skip_sdist) ==
    [name |-> "python_test",
     tox_skip_sdist |-> skip_sdist,
     tox_python_versions |-> "py38,py39",
     tox_docs_builders |-> "test_docs-{" \o Join(builders, ",") \o "}",
     extras |-> extras,
     \* the keys that are not in pyproject.toml at all
     missing |-> {}]

\* the keys the noxfile subscripts when it is imported
RequiredKeys == {"name", "tox_skip_sdist", "tox_python_versions", "tox_docs_builders"}

\* a pyproject.toml with one required value empty, or one required key absent
IncompletePyprojects ==
    LET base == Pyproject(<<"html">>, <<"testing", "docs">>, TRUE)
    IN {[base EXCEPT !.tox_python_versions = ""],
        [base EXCEPT !.tox_docs_builders = ""],
        [base EXCEPT !.name = ""]}
       \cup {[base EXCEPT !.missing = {key}] : key \in RequiredKeys}

Pyprojects ==
    {Pyproject(SubSeq(BuilderNames, 1, n), <<"testing", "docs">>, TRUE) : n \in 1..MaxBuilders}
    \cup {Pyproject(<<"html">>, <<>>, FALSE)}
    \cup IncompletePyprojects

\* the sessions nox queues for `nox -s name`: @nox.parametrize makes one
\* test_docs session per builder, in the order of __SPHINX_BUILDERS
Manifest(name) ==
    IF name = "test_docs"
    THEN [i \in 1..Len(SPHINX_BUILDERS) |-> [name |-> name, builder |-> SPHINX_BUILDERS[i]]]
    ELSE << [name |-> name, builder |-> ""] >>

\* nox.options.sessions: what `nox` without -s asks for
DefaultSessions == <<"tox_lint", "tox_code", "tox_docs">>

\* the requests tried: every registered session alone, no name at all, and
\* the two wrappers of the default list that are registered
Requests ==
    {<<name>> : name \in Registered}
    \cup {DefaultSessions, <<"tox_lint", "tox_code">>}

Names(req) == {req[i] : i \in 1..Len(req)}

\* PYPROJECT[...][key] of a key that is absent raises KeyError while the
\* noxfile is imported; nox refuses a request that names no registered session
LoadError(req) ==
    IF PYPROJECT.missing # {} THEN "KeyError"
    ELSE IF \E name \in Names(req) : name \notin Registered THEN "SessionsNotFound"
    ELSE ""

\* the queue of a request: the sessions of its names, in order
RECURSIVE Resolve(_)
Resolve(req) ==
    IF req = <<>> THEN <<>> ELSE Manifest(Head(req)) \o Resolve(Tail(req))

\* what may be at .pdbrc before the invocation: a file of the user, the file
\* an earlier `nox -s pdbrc` wrote, an empty file, a directory
PdbrcBefore == {"# my own .pdbrc", PDBRC_FILE, "", Directory}

Init ==
    /\ IN_VENV \in BOOLEAN
    /\ PYPROJECT \in Pyprojects
    /\ \E req \in Requests :
          /\ request = req
          /\ nox_error = LoadError(req)
          /\ queue = (IF LoadError(req) = "" THEN Resolve(req) ELSE <<>>)
          /\ argv0 \in ArgLists(UNION {Tokens(name) : name \in Names(req)})
          /\ osenv \in UNION {OsEnvs(name) : name \in Names(req)}
          \* only pre_commit reads session.interactive
          /\ interactive \in (IF "pre_commit" \in Names(req) THEN BOOLEAN ELSE {FALSE})
          \* only pdbrc looks for a file
          /\ files \in {EmptyDict} \cup
                       (IF "pdbrc" \in Names(req)
                        THEN {[k \in {NOXFILE_DIR \o "/.pdbrc"} |-> content] :
                                 content \in PdbrcBefore}
                        ELSE {})
    /\ posargs = argv0
    /\ runs = <<>>

(***************************************************************************)
(* Running the next session of the queue.  nox goes on with the next       *)
(* session whatever the result of this one.                                *)
(***************************************************************************)
Result(r) == IF r.status = "running" THEN "success" ELSE r.status

\* the exit statuses tried: any set of the spawns of the run where all succeed
Oracles(r) == SUBSET (1..Len(r.cmds))

Finish(r) ==
    /\ posargs' = r.pos
    /\ files' = Update(files, r.written)
    /\ runs' = Append(runs, [name |-> Head(queue).name,
                             builder |-> Head(queue).builder,
                             args |-> posargs,
                             cmds |-> r.cmds,
                             result |-> Result(r)])
    /\ queue' = Tail(queue)
    /\ UNCHANGED <<IN_VENV, interactive, osenv, PYPROJECT, argv0, request, nox_error>>

Next_(name) == queue # <<>> /\ Head(queue).name = name

run_package ==
    /\ Next_("package")
    /\ \E fail \in Oracles(package(Start(posargs, {}))) :
          Finish(package(Start(posargs, fail)))

run_test_code ==
    /\ Next_("test_code")
    /\ \E fail \in Oracles(test_code(Start(posargs, {}))) :
          Finish(test_code(Start(posargs, fail)))

run_coverage_merge ==
    /\ Next_("coverage_merge")
    /\ \E fail \in Oracles(coverage_merge(Start(posargs, {}))) :
          Finish(coverage_merge(Start(posargs, fail)))

run_coverage_report ==
    /\ Next_("coverage_report")
    /\ \E fail \in Oracles(coverage_report(Start(posargs, {}))) :
          Finish(coverage_report(Start(posargs, fail)))

run_coverage ==
    /\ Next_("coverage")
    /\ \E fail \in Oracles(coverage(Start(posargs, {}))) :
          Finish(coverage(Start(posargs, fail)))

run_safety ==
    /\ Next_("safety")
    /\ \E fail \in Oracles(safety(Start(posargs, {}))) :
          Finish(safety(Start(posargs, fail)))

run_pre_commit ==
    /\ Next_("pre_commit")
    /\ \E fail \in Oracles(pre_commit(Start(posargs, {}))) :
          Finish(pre_commit(Start(posargs, fail)))

run_docs ==
    /\ Next_("docs")
    /\ \E fail \in Oracles(docs(Start(posargs, {}))) :
          Finish(docs(Start(posargs, fail)))

run_test_docs ==
    /\ Next_("test_docs")
    /\ \E fail \in Oracles(test_docs(Start(posargs, {}), Head(queue).builder)) :
          Finish(test_docs(Start(posargs, fail), Head(queue).builder))

run_install_extras ==
    /\ Next_("install_extras")
    /\ \E fail \in Oracles(install_extras(Start(posargs, {}))) :
          Finish(install_extras(Start(posargs, fail)))

run_setup_pre_commit ==
    /\ Next_("setup_pre_commit")
    /\ \E fail \in Oracles(setup_pre_commit(Start(posargs, {}))) :
          Finish(setup_pre_commit(Start(posargs, fail)))

run_debug_import ==
    /\ Next_("debug_import")
    /\ Finish(debug_import(Start(posargs, {})))

run_pdbrc ==
    /\ Next_("pdbrc")
    /\ Finish(pdbrc(Start(posargs, {})))

run_tox_test_docs ==
    /\ Next_("tox_test_docs")
    /\ \E fail \in Oracles(tox_test_docs(Start(posargs, {}))) :
          Finish(tox_test_docs(Start(posargs, fail)))

run_tox_lint ==
    /\ Next_("tox_lint")
    /\ \E fail \in Oracles(tox_lint(Start(posargs, {}))) :
          Finish(tox_lint(Start(posargs, fail)))

run_tox_code ==
    /\ Next_("tox_code")
    /\ \E fail \in Oracles(tox_code(Start(posargs, {}))) :
          Finish(tox_code(Start(posargs, fail)))

run_tox_docs_test ==
    /\ Next_("tox_docs_test")
    /\ \E fail \in Oracles(tox_docs_test(Start(posargs, {}))) :
          Finish(tox_docs_test(Start(posargs, fail)))

Next ==
    \/ run_package
    \/ run_test_code
    \/ run_coverage_merge
    \/ run_coverage_report
    \/ run_coverage
    \/ run_safety
    \/ run_pre_commit
    \/ run_docs
    \/ run_test_docs
    \/ run_install_extras
    \/ run_setup_pre_commit
    \/ run_debug_import
    \/ run_pdbrc
    \/ run_tox_test_docs
    \/ run_tox_lint
    \/ run_tox_code
    \/ run_tox_docs_test

Spec == Init /\ [][Next]_vars

\* switch_session_class: nox calls the session function registered under name
Call(name, builder, r) ==
    CASE name = "package" -> package(r)
      [] name = "test_code" -> test_code(r)
      [] name = "coverage_merge" -> coverage_merge(r)
      [] name = "coverage_report" -> coverage_report(r)
      [] name = "coverage" -> coverage(r)
      [] name = "safety" -> safety(r)
      [] name = "pre_commit" -> pre_commit(r)
      [] name = "docs" -> docs(r)
      [] name = "test_docs" -> test_docs(r, builder)
      [] name = "install_extras" -> install_extras(r)
      [] name = "setup_pre_commit" -> setup_pre_commit(r)
      [] name = "debug_import" -> debug_import(r)
      [] name = "pdbrc" -> pdbrc(r)
      [] name = "tox_test_docs" -> tox_test_docs(r)
      [] name = "tox_lint" -> tox_lint(r)
      [] name = "tox_code" -> tox_code(r)
      [] name = "tox_docs_test" -> tox_docs_test(r)

(***************************************************************************)
(* Vocabulary of the properties: what a finished session (an element of    *)
(* runs) did.                                                              *)
(***************************************************************************)
Argvs(cmds) == [j \in 1..Len(cmds) |-> cmds[j].argv]

\* the two commands of poetry_install, and the `pip install .` of test_code
IsPoetrySetup(argv) == argv = <<"pip", "install", "poetry>=1">>
IsPoetryInstall(argv) == Len(argv) >= 2 /\ argv[1] = "poetry" /\ argv[2] = "install"
IsInstall(argv) ==
    IsPoetrySetup(argv) \/ IsPoetryInstall(argv) \/ argv = <<"pip", "install", ".">>
NotInstall(argv) == ~IsInstall(argv)

\* the session ran its own tools / handed the work to tox
DirectRun(rec) == rec.name \in FlagSessions /\ IN_VENV /\ ~Contains(rec.args, "tox")
Delegated(rec) ==
    \/ rec.name \in ToxWrappers
    \/ rec.name \in FlagSessions /\ (~IN_VENV \/ Contains(rec.args, "tox"))

AllZero(rec) == \A j \in 1..Len(rec.cmds) : rec.cmds[j].rc = 0

\* list with x put in after its first k elements
InsertAt(list, k, x) == SubSeq(list, 1, k) \o <<x>> \o SubSeq(list, k + 1, Len(list))

\* sub is list with some elements left out
RECURSIVE IsSubsequence(_, _)
IsSubsequence(sub, list) ==
    IF sub = <<>> THEN TRUE
    ELSE IF list = <<>> THEN FALSE
    ELSE IF Head(sub) = Head(list) THEN IsSubsequence(Tail(sub), Tail(list))
    ELSE IsSubsequence(sub, Tail(list))

(***************************************************************************)
(* Properties.                                                             *)
(***************************************************************************)

\* C1: in direct (non-tox) mode, a session that knows the flag and is given
\* posargs holding skip_install runs no installation command (neither
\* `pip install poetry>=1` nor `poetry install`).
C1_SkipInstallRunsNoInstall ==
    \A i \in 1..Len(runs) :
        (DirectRun(runs[i]) /\ Contains(runs[i].args, "skip_install"))
        => \A j \in 1..Len(runs[i].cmds) :
               /\ ~IsPoetrySetup(runs[i].cmds[j].argv)
               /\ ~IsPoetryInstall(runs[i].cmds[j].argv)

\* C2: in direct mode, for a session that knows the flag, the commands run
\* with skip_install added to the posargs (at any place) are the commands
\* run without it less the commands of the install branch, everything else
\* the same, in the same order, with the same arguments.
C2_SkipInstallRemovesOnlyInstall ==
    \A i \in 1..Len(runs) :
        (/\ DirectRun(runs[i])
         /\ ~Contains(runs[i].args, "skip_install")
         /\ runs[i].result = "success")
        => \A k \in 0..Len(runs[i].args) :
               LET added == InsertAt(runs[i].args, k, "skip_install")
                   with == Argvs(Call(runs[i].name, runs[i].builder, Start(added, {})).cmds)
                   without == Argvs(runs[i].cmds)
               IN /\ with = SelectSeq(without, NotInstall)
                  /\ with # without

\* C3: no token a session treats as an option of its own is an argument of
\* a command the session spawns (the installation commands, whose arguments
\* the script writes itself, left aside), in direct and in tox mode alike.
C3_NoOptionTokenForwarded ==
    \A i \in 1..Len(runs) :
        \A j \in 1..Len(runs[i].cmds) :
            LET argv == runs[i].cmds[j].argv
            IN NotInstall(argv)
               => \A a \in 2..Len(argv) : ~Recognizes(runs[i].name, argv[a])

\* the commands that take the caller's remaining arguments
TakesArgs(rec, argv) ==
    \/ Delegated(rec) /\ argv[1] = "tox"
    \/ DirectRun(rec) /\ rec.name = "test_code" /\ argv[1] = "pytest"
    \/ DirectRun(rec) /\ rec.name \in {"docs", "test_docs"}
                      /\ argv[1] \in {"sphinx-build", "sphinx-autobuild"}
    \/ DirectRun(rec) /\ rec.name = "pre_commit" /\ argv[1] = "pre-commit"

Unrecognized(rec) == SelectSeq(rec.args, LAMBDA t : ~Recognizes(rec.name, t))

\* C4: every token the session does not recognize is an argument of its own
\* of the session's final command (pytest, sphinx-build, each pre-commit
\* run, tox -e), unchanged and in the caller's order.
C4_UnknownTokensReachFinalCommand ==
    \A i \in 1..Len(runs) :
        \A j \in 1..Len(runs[i].cmds) :
            TakesArgs(runs[i], runs[i].cmds[j].argv)
            => IsSubsequence(Unrecognized(runs[i]), Tail(runs[i].cmds[j].argv))

\* C5: in pre_commit, given posargs with one or more SKIP=<value> tokens, no
\* SKIP=... token is an argument of a `pre-commit run` command and the
\* environment given to each of them has SKIP holding a supplied value.
C5_SkipTokenBecomesEnv ==
    \A i \in 1..Len(runs) :
        (/\ runs[i].name = "pre_commit"
         /\ DirectRun(runs[i])
         /\ FirstWithPrefix(runs[i].args, "SKIP=") # "")
        => \A j \in 1..Len(runs[i].cmds) :
               LET c == runs[i].cmds[j]
               IN c.argv[1] = "pre-commit"
                  => /\ \A a \in 1..Len(c.argv) : ~StartsWith(c.argv[a], "SKIP=")
                     /\ "SKIP" \in DOMAIN c.env
                     /\ \E a \in 1..Len(runs[i].args) :
                            /\ StartsWith(runs[i].args[a], "SKIP=")
                            /\ Contains(Split(c.env["SKIP"], ","),
                                        DropFirst(runs[i].args[a], 5))

\* the steps whose failure is collected: a `pre-commit run` of pre_commit,
\* `coverage report` and `diff-cover` of _coverage
IsAccumulating(rec, argv) ==
    \/ rec.name = "pre_commit" /\ argv[1] = "pre-commit"
    \/ /\ rec.name \in {"coverage_report", "coverage"}
       /\ \/ (argv[1] = "coverage" /\ argv[2] = "report")
          \/ argv[1] = "diff-cover"

Accumulating(rec) == SelectSeq(rec.cmds, LAMBDA c : IsAccumulating(rec, c.argv))

\* what tells one accumulating step from the others: the hook named last on
\* the command line of `pre-commit run`, the tool for _coverage
StepTag(rec, argv) == IF rec.name = "pre_commit" THEN argv[Len(argv)] ELSE argv[1]

\* the accumulating steps as declared: the hooks of HOOKS=h1,...,hn in order
\* (one run of all hooks, named "", without HOOKS=), report then diff-cover
DeclaredAccumulating(rec) ==
    IF rec.name = "pre_commit"
    THEN LET hooks_arg == FirstWithPrefix(rec.args, "HOOKS=")
         IN IF hooks_arg # "" THEN Split(DropFirst(hooks_arg, 6), ",") ELSE <<"">>
    ELSE <<"coverage", "diff-cover">>

HasAccumulating(rec) ==
    DirectRun(rec) /\ rec.name \in {"pre_commit", "coverage_report", "coverage"}

\* every step before the accumulating ones (install, merge) returned zero
PrecedingSucceeded(rec) ==
    \A j \in 1..Len(rec.cmds) :
        ~IsAccumulating(rec, rec.cmds[j].argv) => rec.cmds[j].rc = 0

AccumulatedAll(rec) ==
    LET acc == Accumulating(rec)
    IN /\ [j \in 1..Len(acc) |-> StepTag(rec, acc[j].argv)] = DeclaredAccumulating(rec)
       /\ rec.result \in {"success", "failed"}
       /\ rec.result = "failed" <=> \E j \in 1..Len(acc) : acc[j].rc # 0

\* C6 as stated: in pre_commit and in _coverage with job report or all,
\* every accumulating step runs exactly once, in declaration order, and the
\* session fails iff one of those steps returned non-zero.
C6_AccumulatingAlways ==
    \A i \in 1..Len(runs) : HasAccumulating(runs[i]) => AccumulatedAll(runs[i])

\* C6 amended: the same, for the sessions in which every step that precedes
\* the accumulating ones (the installation commands, the three merge
\* commands of job all) returned zero.
C6_AccumulatingOnceReached ==
    \A i \in 1..Len(runs) :
        (HasAccumulating(runs[i]) /\ PrecedingSucceeded(runs[i]))
        => AccumulatedAll(runs[i])

\* C6 witness: a pre_commit with two hooks, the first failed, the second ran
\* all the same and succeeded, the session failed.
C6_Witness ==
    \E i \in 1..Len(runs) :
        /\ HasAccumulating(runs[i])
        /\ runs[i].name = "pre_commit"
        /\ LET acc == Accumulating(runs[i])
           IN /\ Len(acc) = 2
              /\ acc[1].rc # 0
              /\ acc[2].rc = 0
        /\ runs[i].result = "failed"

\* the steps of the sessions whose steps are all fatal, as declared, each
\* named by the first two words of its command line
DeclaredFatal(rec) ==
    (IF rec.name = "setup_pre_commit" \/ Contains(rec.args, "skip_install")
     THEN <<>>
     ELSE << <<"pip", "install">>, <<"poetry", "install">> >>)
    \o (CASE rec.name = "package" -> << <<"poetry", "build">>, <<"twine", "check">> >>
          [] rec.name = "coverage_merge" ->
                << <<"coverage", "combine">>, <<"coverage", "xml">>, <<"coverage", "html">> >>
          [] rec.name = "safety" ->
                << <<VENV_BIN_DIR \o "/poetry", "show">>, <<"safety", "check">> >>
          [] rec.name = "setup_pre_commit" ->
                << <<"tox", "-re">>, <<"pre-commit", "install">>, <<"tox", "-e">> >>)

AllFatal(rec) ==
    \/ rec.name = "setup_pre_commit"
    \/ DirectRun(rec) /\ rec.name \in {"package", "coverage_merge", "safety"}

\* C7: in a session whose steps are all fatal, the steps run in declaration
\* order, the first one that returns non-zero ends the session in failure
\* and no later step is spawned.
C7_FirstFailureStops ==
    \A i \in 1..Len(runs) :
        AllFatal(runs[i])
        => LET cmds == runs[i].cmds
               n == Len(cmds)
               declared == DeclaredFatal(runs[i])
           IN /\ n >= 1 /\ n <= Len(declared)
              /\ [j \in 1..n |-> <<cmds[j].argv[1], cmds[j].argv[2]>>] = SubSeq(declared, 1, n)
              /\ \A j \in 1..(n - 1) : cmds[j].rc = 0
              /\ runs[i].result = (IF cmds[n].rc = 0 THEN "success" ELSE "failed")
              /\ cmds[n].rc = 0 => n = Len(declared)

\* C7 witness: package, run directly without installing, whose `poetry build`
\* failed: the session failed and `twine check` was not spawned.
C7_Witness ==
    \E i \in 1..Len(runs) :
        /\ AllFatal(runs[i])
        /\ runs[i].name = "package"
        /\ Len(runs[i].cmds) = 1
        /\ runs[i].cmds[1].argv = <<"poetry", "build", "-vvv">>
        /\ runs[i].cmds[1].rc # 0
        /\ runs[i].result = "failed"

IsToxRun(argv) == Len(argv) >= 3 /\ argv[1] = "tox" /\ argv[2] = "-e"

\* C8 as stated: a session delegated to tox spawns exactly one command,
\* `tox -e <envs>`, whose outcome is the outcome of the session.
C8_OnlyToxSpawned ==
    \A i \in 1..Len(runs) :
        Delegated(runs[i])
        => /\ Len(runs[i].cmds) = 1
           /\ IsToxRun(runs[i].cmds[1].argv)
           /\ runs[i].result = (IF runs[i].cmds[1].rc = 0 THEN "success" ELSE "failed")

\* C8 amended: a session delegated to tox spawns, in this order and each
\* only if the one before returned zero, `pip install poetry>=1`,
\* `poetry install --no-root [--no-dev] --extras tox` and one `tox -e <envs>`,
\* the last with the single variable _TOX_SKIP_SDIST set in the session
\* environment; it spawns no other command, and it succeeds iff the tox
\* command was spawned and returned zero (tox_code that errors or skips
\* spawns nothing).
C8_InstallThenOneTox ==
    \A i \in 1..Len(runs) :
        Delegated(runs[i])
        => LET cmds == runs[i].cmds
               n == Len(cmds)
           IN /\ n <= 3
              /\ n >= 1 => IsPoetrySetup(cmds[1].argv)
              /\ n >= 2 => /\ IsPoetryInstall(cmds[2].argv)
                           /\ IsSubsequence(<<"--no-root", "--extras", "tox">>, cmds[2].argv)
              /\ n = 3 => /\ IsToxRun(cmds[3].argv)
                          /\ cmds[3].env = [k \in {"_TOX_SKIP_SDIST"} |-> BoolStr(TOX_SKIP_SDIST)]
              /\ \A j \in 1..(n - 1) : cmds[j].rc = 0
              /\ runs[i].result = "success" <=> (n = 3 /\ cmds[3].rc = 0)
              /\ (n = 0) <=> runs[i].result \in {"error", "skipped"}

\* C8 witness: a delegated session that installed, called tox and succeeded.
C8_Witness ==
    \E i \in 1..Len(runs) :
        /\ Delegated(runs[i])
        /\ Len(runs[i].cmds) = 3
        /\ IsToxRun(runs[i].cmds[3].argv)
        /\ runs[i].result = "success"

\* the builders a command builds the docs with: the one of sphinx-build -b,
\* the ones listed in the env name of tox -e test_docs-{b1,...,bn}
Builds(argv, builder) ==
    \/ Len(argv) >= 3 /\ argv[1] = "sphinx-build" /\ argv[2] = "-b" /\ argv[3] = builder
    \/ IsToxRun(argv) /\ Contains(Split(SubSeq(argv[3], 12, Len(argv[3]) - 1), ","), builder)

BuildCount(builder) ==
    Cardinality({ij \in (1..Len(runs)) \X (1..3) :
                    /\ ij[2] <= Len(runs[ij[1]].cmds)
                    /\ Builds(runs[ij[1]].cmds[ij[2]].argv, builder)})

\* nox -s test_docs has run all its sessions
TestDocsDone ==
    /\ queue = <<>>
    /\ runs # <<>>
    /\ \A i \in 1..Len(runs) : runs[i].name = "test_docs"

\* C9: one invocation of test_docs runs one session per configured builder
\* whatever the result of the others, and when every command succeeds the
\* docs are built exactly once per builder, in direct and in tox mode alike.
C9_OneBuildPerBuilder ==
    TestDocsDone
    => /\ Len(runs) = Len(SPHINX_BUILDERS)
       /\ (\A i \in 1..Len(runs) : AllZero(runs[i]))
          => \A b \in 1..Len(SPHINX_BUILDERS) : BuildCount(SPHINX_BUILDERS[b]) = 1

\* C10: two runs of the same session function in one invocation, every
\* command succeeding, spawn the same sequence of programs: what the first
\* run removed from session.posargs does not change the steps of the second.
C10_SecondRunSameSteps ==
    \A i \in 1..Len(runs) : \A j \in 1..Len(runs) :
        (/\ i < j
         /\ runs[i].name = runs[j].name
         /\ AllZero(runs[i]) /\ AllZero(runs[j]))
        => [k \in 1..Len(runs[i].cmds) |-> runs[i].cmds[k].argv[1]]
           = [k \in 1..Len(runs[j].cmds) |-> runs[j].cmds[k].argv[1]]

\* the python versions of the tests are absent from pyproject.toml, or empty
NoPythonVersions == "tox_python_versions" \in PYPROJECT.missing \/ TOX_PYTHON_VERSIONS = ""

\* C11: when the python test versions are missing or empty and tox_code is
\* among the sessions asked for, no command of the invocation is spawned
\* (no step of an earlier session such as tox_lint has run), and tox_code,
\* if it runs, reports the error whatever flags are in posargs.
C11_ConfigErrorBeforeAnyCommand ==
    (NoPythonVersions /\ "tox_code" \in Names(request))
    => /\ \A i \in 1..Len(runs) : runs[i].cmds = <<>>
       /\ \A i \in 1..Len(runs) : runs[i].name = "tox_code" => runs[i].result = "error"

PdbrcPath == NOXFILE_DIR \o "/.pdbrc"

\* C12: the pdbrc session leaves an existing .pdbrc as it is, creates a
\* missing one with the content of PDBRC_FILE, and a further run of pdbrc
\* after it would change nothing.
C12_PdbrcNeverOverwrites ==
    [][Next_("pdbrc")
       => /\ PdbrcPath \in DOMAIN files => files' = files
          /\ PdbrcPath \notin DOMAIN files
             => files' = Update(files, [k \in {PdbrcPath} |-> PDBRC_FILE])
          /\ Update(files, pdbrc(Start(posargs, {})).written)' = files']_vars

\* C12 witnesses: pdbrc has run and the user's file is still there; pdbrc has
\* run on a directory without .pdbrc and created it.
C12_Witness ==
    /\ runs # <<>>
    /\ runs[1].name = "pdbrc"
    /\ runs[1].result = "success"
    /\ PdbrcPath \in DOMAIN files
    /\ files[PdbrcPath] = "# my own .pdbrc"

\* C13: every name of the default session list is a registered session, so
\* nox invoked without a session name never stops on a session it cannot find.
C13_DefaultSessionsRegistered ==
    request = DefaultSessions
    => /\ Names(request) \subseteq Registered
       /\ nox_error # "SessionsNotFound"

====
